---- MODULE Spec2Model ----
(***************************************************************************)
(* Model of the CrashBot decision core (Crash/src/bot_controller.py and    *)
(* Crash/src/strategy_engine.py): the Balance Watcher with its             *)
(* drastic-change validation and stop-loss latch, the orchestrator's       *)
(* per-round settlement (process_explosion) and the strategy engine with   *)
(* its two policies.                                                       *)
(*                                                                         *)
(* Units.  Balances are whole currency units.  Round outcomes and targets  *)
(* are hundredths (184 is 1.84x).  Clock values are whole hours.          *)
(* Percentages are whole percents.  Python's None is the value None below; *)
(* Truthy(x) is Python's truth test on an Optional[float].                 *)
(***************************************************************************)
EXTENDS Integers, Sequences, FiniteSets, TLC

None == -1

Truthy(x) == x /= None /\ x /= 0

Abs(x) == IF x < 0 THEN -x ELSE x

(***************************************************************************)
(* Program constants.                                                      *)
(***************************************************************************)
balance_change_threshold_pct == 30

CONFIRM_TOLERANCE == 5

stop_loss_threshold_pct == 50

DEFAULT_BALANCE == 100

(***************************************************************************)
(* Bounds of the model.                                                    *)
(***************************************************************************)
MaxBalHist == 4

\* Values the perception collaborator returns for the balance region;
\* None is "no reading", 0 a garbled reading.
BalReadings == {None, 0, 40, 98, 102, 130, 150, 259, 260}

VARIABLES
    main_pc,                  \* _run_main_loop: "init", "running", "stopped"
    running,                  \* self.running
    current_balance,          \* self.current_balance
    initial_balance,          \* self.initial_balance
    balance_history,          \* self.balance_history
    stop_loss_alerted,        \* self.stop_loss_alerted
    stop_loss_alerts,         \* number of trigger_alert("stop_loss") calls
    bw_pc,                    \* position of detect_balance_continuously
    current_balance_snapshot, \* its local of the same name
    new_balance,              \* its local of the same name
    confirmed_balance,        \* local of _validate_and_confirm_balance_change
    validated_balance,        \* local of detect_balance_continuously
    now,                      \* time.time(), in hours since construction
    explosion_history,        \* StrategyEngine.explosion_history
    martingale,               \* policies[0], a Martingale8LowPolicy
    ml,                       \* policies[1], a MLHighConfidencePolicy
    banca_inicial,            \* StrategyEngine.banca_inicial
    banca_original_sessao,    \* StrategyEngine.banca_original_sessao
    suspenso_ate,             \* StrategyEngine.suspenso_ate
    modo_ciclo,               \* StrategyEngine.modo_ciclo
    aposta_preparada,         \* StrategyEngine.aposta_preparada, <<>> is None
    executed_bet_pending,     \* BotController.executed_bet_pending, <<>> is None
    round_count,              \* BotController.round_count
    bet_areas_calibrated,     \* the three BET 1 areas are in screen_areas
    seed_rounds,              \* rounds settled before the first state
    pending_created_round,    \* round_count when the pending bet was recorded
    last_round,               \* what the last process_explosion call did
    thr_pc,                   \* position of each background thread
    lock_holder,              \* owner of balance_lock and of buffer_lock
    stop_pc,                  \* position of stop()
    stop_calls,               \* number of stop() calls made
    frame_buffer,             \* self.frame_buffer, the values of its frames
    frames_captured,          \* iterations of capture_multipliers_continuously
    time_s,                   \* time.time(), in seconds within the hour now
    det_pc,                   \* position of detect_bet_and_process
    last_explosion_time,      \* its local of the same name
    current_time,             \* its local of the same name
    buffer_copy,              \* its local of the same name
    boundaries                \* what each detected boundary led to

balVars == <<main_pc, running, current_balance, initial_balance,
             balance_history, stop_loss_alerted, stop_loss_alerts>>

bwVars == <<bw_pc, current_balance_snapshot, new_balance, confirmed_balance,
            validated_balance>>

clockVars == <<now>>

engVars == <<explosion_history, martingale, ml, banca_inicial,
             banca_original_sessao, suspenso_ate, modo_ciclo,
             aposta_preparada>>

ctlVars == <<executed_bet_pending, round_count, bet_areas_calibrated,
             seed_rounds, pending_created_round, last_round>>

thrVars == <<thr_pc, lock_holder, stop_pc, stop_calls>>

capVars == <<frame_buffer, frames_captured>>

detVars == <<time_s, det_pc, last_explosion_time, current_time, buffer_copy,
             boundaries>>

roundVars == <<clockVars, engVars, ctlVars, thrVars, capVars, detVars>>

vars == <<balVars, bwVars, clockVars, engVars, ctlVars, thrVars, capVars,
          detVars>>

----------------------------------------------------------------------------
(***************************************************************************)
(* Shared session state: validation and stop-loss.                         *)
(***************************************************************************)

\* change_percent <= self.balance_change_threshold_pct, for
\* change_percent = abs(new - cur) / cur * 100 and cur > 0.
WithinThreshold(new, cur) ==
    Abs(new - cur) * 100 <= balance_change_threshold_pct * cur

\* The first part of _validate_and_confirm_balance_change: the value it
\* returns without a second read, or NeedConfirm when a second read is needed.
NeedConfirm == -2

\* Variant without the confirmation protocol.
ValidateFirst_NoConfirm(new, cur) == new

ValidateFirst(new, cur) ==
    IF ~Truthy(cur) THEN new
    ELSE IF WithinThreshold(new, cur) THEN new
    ELSE NeedConfirm

\* Variant that stores the candidate instead of the second reading.
ValidateSecond_StoresCandidate(new, confirmed) ==
    IF ~Truthy(confirmed) \/ Abs(confirmed - new) > CONFIRM_TOLERANCE
    THEN None
    ELSE new

\* The second part: the result given the second reading.
ValidateSecond(new, confirmed) ==
    IF ~Truthy(confirmed) \/ Abs(confirmed - new) > CONFIRM_TOLERANCE
    THEN None
    ELSE confirmed

\* Variant without the latch test.
StopLossFires_NoLatch(alerted, cur, initial) ==
    /\ initial > 0
    /\ cur * 100 < initial * (100 - stop_loss_threshold_pct)

\* _check_and_trigger_stop_loss: TRUE when the alert is raised.
StopLossFires(alerted, cur, initial) ==
    /\ ~alerted
    /\ initial > 0
    /\ cur * 100 < initial * (100 - stop_loss_threshold_pct)

\* The write block of detect_balance_continuously and what follows it:
\* current_balance, balance_history and the stop-loss check.
AcceptBalance(v) ==
    /\ current_balance' = v
    /\ balance_history' = Append(balance_history, v)
    /\ LET fires == /\ Truthy(initial_balance)
                    /\ StopLossFires(stop_loss_alerted, v, initial_balance)
       IN  /\ stop_loss_alerted' = (stop_loss_alerted \/ fires)
           /\ stop_loss_alerts' = stop_loss_alerts + (IF fires THEN 1 ELSE 0)
    /\ UNCHANGED <<main_pc, running, initial_balance>>

----------------------------------------------------------------------------
(***************************************************************************)
(* Session start and stop.                                                 *)
(***************************************************************************)

\* _run_main_loop: _initialize_balance, running = True, _start_threads.
StartSession ==
    /\ main_pc = "init"
    /\ main_pc' = "running"
    /\ running' = TRUE
    /\ initial_balance' = DEFAULT_BALANCE
    /\ current_balance' = DEFAULT_BALANCE
    /\ balance_history' = Append(balance_history, DEFAULT_BALANCE)
    /\ bw_pc' = "loop"
    /\ UNCHANGED <<stop_loss_alerted, stop_loss_alerts,
                   current_balance_snapshot, new_balance, confirmed_balance,
                   validated_balance>>
    /\ UNCHANGED roundVars

\* stop(): a second call returns at once.
Stop ==
    /\ main_pc = "running"
    /\ running
    /\ running' = FALSE
    /\ main_pc' = "stopped"
    /\ UNCHANGED <<current_balance, initial_balance, balance_history,
                   stop_loss_alerted, stop_loss_alerts, bwVars>>
    /\ UNCHANGED roundVars

----------------------------------------------------------------------------
(***************************************************************************)
(* Balance Watcher thread, detect_balance_continuously, step by step.      *)
(***************************************************************************)

\* Variant that takes the snapshot only once and then keeps it.
BW_Snapshot_KeepsFirst ==
    /\ bw_pc = "loop"
    /\ IF running
       THEN /\ Len(balance_history) < MaxBalHist
            /\ bw_pc' = "get_balance"
            /\ current_balance_snapshot' =
                  IF current_balance_snapshot = None THEN current_balance
                  ELSE current_balance_snapshot
       ELSE /\ bw_pc' = "done"
            /\ UNCHANGED current_balance_snapshot
    /\ new_balance' = None
    /\ confirmed_balance' = None
    /\ validated_balance' = None
    /\ UNCHANGED <<balVars>>
    /\ UNCHANGED roundVars

\* Loop test and the locked snapshot of current_balance.
BW_Snapshot ==
    /\ bw_pc = "loop"
    /\ IF running
       THEN /\ Len(balance_history) < MaxBalHist
            /\ bw_pc' = "get_balance"
            /\ current_balance_snapshot' = current_balance
       ELSE /\ bw_pc' = "done"
            /\ UNCHANGED current_balance_snapshot
    /\ new_balance' = None
    /\ confirmed_balance' = None
    /\ validated_balance' = None
    /\ UNCHANGED <<balVars>>
    /\ UNCHANGED roundVars

\* vision.get_balance and the first part of the validation.  A reading
\* that is None, 0 or equal to the snapshot ends the iteration; so does an
\* exception of the collaborator.
BW_GetBalance(r) ==
    /\ bw_pc = "get_balance"
    /\ new_balance' = r
    /\ IF Truthy(r) /\ r /= current_balance_snapshot
       THEN LET res == ValidateFirst(r, current_balance_snapshot)
            IN  IF res = NeedConfirm
                THEN /\ bw_pc' = "confirm_snapshot"
                     /\ UNCHANGED validated_balance
                ELSE /\ validated_balance' = res
                     /\ bw_pc' = IF Truthy(res) THEN "write" ELSE "loop"
       ELSE /\ bw_pc' = "loop"
            /\ UNCHANGED validated_balance
    /\ UNCHANGED <<balVars, current_balance_snapshot,
                   confirmed_balance>>
    /\ UNCHANGED roundVars

\* The locked re-snapshot taken before the confirming read.
BW_ConfirmSnapshot ==
    /\ bw_pc = "confirm_snapshot"
    /\ bw_pc' = "confirm_get"
    /\ UNCHANGED <<balVars, current_balance_snapshot, new_balance,
                   confirmed_balance, validated_balance>>
    /\ UNCHANGED roundVars

\* The confirming vision.get_balance and the decision on it.
BW_ConfirmGet(r) ==
    /\ bw_pc = "confirm_get"
    /\ confirmed_balance' = r
    /\ LET res == ValidateSecond(new_balance, r)
       IN  /\ validated_balance' = res
           /\ bw_pc' = IF Truthy(res) THEN "write" ELSE "loop"
    /\ UNCHANGED <<balVars, current_balance_snapshot, new_balance>>
    /\ UNCHANGED roundVars

\* The locked write, the history append and the stop-loss check.
BW_Write ==
    /\ bw_pc = "write"
    /\ AcceptBalance(validated_balance)
    /\ bw_pc' = "loop"
    /\ UNCHANGED <<current_balance_snapshot, new_balance,
                   confirmed_balance, validated_balance>>
    /\ UNCHANGED roundVars

----------------------------------------------------------------------------
(***************************************************************************)
(* Strategy engine constants (strategy_engine.py).                         *)
(***************************************************************************)
LOW_THRESHOLD == 200

LOWS_NEEDED == 8

MAX_DOBRA == 4

MARTINGALE_TARGET == 184

PARTIAL_WIN_MAX == 199

SAFETY_WINDOW == 20

DANGER_STD_THRESHOLD == 230

DANGER_MEAN_THRESHOLD == 250

HISTORY_MAXLEN == 260

REQUIRED_HISTORY_FOR_PREDICTION == 250

confidence_threshold == 80

ML_TARGET == 200

meta_lucro_percentual == 40

tempo_suspensao_horas == 4

SESSION_BANCA == 100

(***************************************************************************)
(* Helpers on sequences.                                                   *)
(***************************************************************************)
RECURSIVE SeqSum(_)
SeqSum(s) == IF s = <<>> THEN 0 ELSE Head(s) + SeqSum(Tail(s))

RECURSIVE SeqSumSq(_)
SeqSumSq(s) == IF s = <<>> THEN 0 ELSE Head(s) * Head(s) + SeqSumSq(Tail(s))

LastN(s, n) == IF Len(s) <= n THEN s ELSE SubSeq(s, Len(s) - n + 1, Len(s))

\* deque(maxlen=260).append
DequeAppend(h, v) == LastN(Append(h, v), HISTORY_MAXLEN)

(***************************************************************************)
(* Martingale8LowPolicy.                                                   *)
(***************************************************************************)
NewMartingale(banca) ==
    [is_active |-> FALSE, dobra_atual |-> 1, perdas_consecutivas |-> 0,
     modo_continuo |-> FALSE, target_ativo |-> MARTINGALE_TARGET,
     lows_needed |-> LOWS_NEEDED, banca_inicial |-> banca]

\* _count_consecutive_lows: the length of the run below 2.0 that ends at
\* position i, counted backwards as the loop over reversed(history) does.
RECURSIVE LowsEndingAt(_, _)
LowsEndingAt(h, i) ==
    IF i = 0 THEN 0
    ELSE IF h[i] < LOW_THRESHOLD THEN 1 + LowsEndingAt(h, i - 1)
    ELSE 0

CountConsecutiveLows(h) == LowsEndingAt(h, Len(h))

\* Variant that vetoes only when both statistics are low.
CheckSafetyConditions_BothLow(h) ==
    IF Len(h) < SAFETY_WINDOW THEN FALSE
    ELSE LET recent == LastN(h, SAFETY_WINDOW)
             n == SAFETY_WINDOW
             sum == SeqSum(recent)
             sumsq == SeqSumSq(recent)
             stdLow == n * sumsq - sum * sum
                         < (DANGER_STD_THRESHOLD * n) * (DANGER_STD_THRESHOLD * n)
             meanLow == sum < DANGER_MEAN_THRESHOLD * n
         IN  ~(stdLow /\ meanLow)

\* _check_safety_conditions.  With n = 20 recent values x (hundredths),
\* np.std(x) < 2.3 is n*sum(x^2) - sum(x)^2 < (230*n)^2 and
\* np.mean(x) < 2.5 is sum(x) < 250*n.
CheckSafetyConditions(h) ==
    IF Len(h) < SAFETY_WINDOW THEN FALSE
    ELSE LET recent == LastN(h, SAFETY_WINDOW)
             n == SAFETY_WINDOW
             sum == SeqSum(recent)
             sumsq == SeqSumSq(recent)
             stdLow == n * sumsq - sum * sum
                         < (DANGER_STD_THRESHOLD * n) * (DANGER_STD_THRESHOLD * n)
             meanLow == sum < DANGER_MEAN_THRESHOLD * n
         IN  ~(stdLow \/ meanLow)

\* _activate_strategy
ActivateStrategy(p) ==
    [p EXCEPT !.is_active = TRUE, !.dobra_atual = 1,
              !.perdas_consecutivas = 0, !.modo_continuo = FALSE]

\* _reset_cycle
ResetCycle(p) ==
    [p EXCEPT !.is_active = FALSE, !.dobra_atual = 1,
              !.perdas_consecutivas = 0, !.modo_continuo = FALSE,
              !.target_ativo = 0]

\* Variant with a strict comparison of the low count.
HandleTriggerCondition_Strict(p, lows_count, h) ==
    IF lows_count > p.lows_needed
    THEN CheckSafetyConditions(h)
    ELSE FALSE

\* _handle_trigger_condition: TRUE when the policy is to activate.
HandleTriggerCondition(p, lows_count, h) ==
    IF lows_count >= p.lows_needed
    THEN CheckSafetyConditions(h)
    ELSE FALSE

\* check_trigger: the policy afterwards.
MartingaleCheckTrigger(p, h) ==
    IF p.is_active THEN p
    ELSE IF HandleTriggerCondition(p, CountConsecutiveLows(h), h)
         THEN ActivateStrategy(p)
         ELSE p

\* Variant that keeps doubling at the last stage.
MartingaleProcessResult_NoMaxReset(p, v) ==
    IF ~p.is_active THEN p
    ELSE IF v < p.target_ativo
         THEN [p EXCEPT !.perdas_consecutivas = @ + 1, !.dobra_atual = @ + 1]
         ELSE IF v <= PARTIAL_WIN_MAX
              THEN [p EXCEPT !.dobra_atual = 2, !.perdas_consecutivas = 0,
                             !.modo_continuo = TRUE]
              ELSE ResetCycle(p)

\* Variant in which a partial win leaves the stage as it is.
MartingaleProcessResult_KeepsStage(p, v) ==
    IF ~p.is_active THEN p
    ELSE IF v < p.target_ativo
         THEN IF p.dobra_atual >= MAX_DOBRA
              THEN ResetCycle([p EXCEPT !.perdas_consecutivas = @ + 1])
              ELSE [p EXCEPT !.perdas_consecutivas = @ + 1,
                             !.dobra_atual = @ + 1]
         ELSE IF v <= PARTIAL_WIN_MAX
              THEN [p EXCEPT !.perdas_consecutivas = 0, !.modo_continuo = TRUE]
              ELSE ResetCycle(p)

\* Variant that ignores the outcome.
MartingaleProcessResult_Frozen(p, v) == p

\* process_result
MartingaleProcessResult(p, v) ==
    IF ~p.is_active THEN p
    ELSE IF v < p.target_ativo
         THEN IF p.dobra_atual >= MAX_DOBRA
              THEN ResetCycle([p EXCEPT !.perdas_consecutivas = @ + 1])
              ELSE [p EXCEPT !.perdas_consecutivas = @ + 1,
                             !.dobra_atual = @ + 1]
         ELSE IF v <= PARTIAL_WIN_MAX
              THEN [p EXCEPT !.dobra_atual = 2, !.perdas_consecutivas = 0,
                             !.modo_continuo = TRUE]
              ELSE ResetCycle(p)

\* Martingale15._definir_valores: max(1.0, round(banca / 15 * mult, 2)),
\* in hundredths; banca is a whole number so the rounding has no ties.
\* Variant with stakes growing by one unit per stage.
StageMultiplier_Linear(dobra) == dobra

\* multipliers = {1: 1, 2: 2, 3: 4, 4: 8}
StageMultiplier(dobra) ==
    CASE dobra = 1 -> 1 [] dobra = 2 -> 2 [] dobra = 3 -> 4 [] dobra = 4 -> 8

ValoresFixos(banca, dobra) ==
    LET cents == (2 * banca * 100 * StageMultiplier(dobra) + 15) \div 30
    IN  IF cents < 100 THEN 100 ELSE cents

\* Martingale15.get_bet
GetBet(banca, dobra) ==
    IF dobra \in 1..4 THEN ValoresFixos(banca, dobra)
    ELSE ValoresFixos(banca, 1)

\* get_bet_recommendation of the Martingale policy (the policy is active).
MartingaleRecommendation(p, balance) ==
    [strategy |-> "Martingale8Low", dobra |-> p.dobra_atual,
     bet_1 |-> GetBet(p.banca_inicial, p.dobra_atual),
     target_1 |-> MARTINGALE_TARGET]

(***************************************************************************)
(* MLHighConfidencePolicy.  The score is the value of                      *)
(* LearningEngine.predict, a whole percent or None.                        *)
(***************************************************************************)
NewML(banca) ==
    [is_active |-> FALSE, last_calculated_prob |-> 0, banca_inicial |-> banca]

\* Variant that treats an unavailable score as a pass.
MLCheckTrigger_NoneActivates(p, h, score) ==
    IF p.is_active THEN p
    ELSE IF Len(LastN(h, REQUIRED_HISTORY_FOR_PREDICTION))
              < REQUIRED_HISTORY_FOR_PREDICTION
         THEN [p EXCEPT !.last_calculated_prob = 0]
         ELSE IF score = None \/ score >= confidence_threshold
              THEN [p EXCEPT !.last_calculated_prob = 0, !.is_active = TRUE]
              ELSE [p EXCEPT !.last_calculated_prob = score]

MLCheckTrigger(p, h, score) ==
    IF p.is_active THEN p
    ELSE IF Len(LastN(h, REQUIRED_HISTORY_FOR_PREDICTION))
              < REQUIRED_HISTORY_FOR_PREDICTION
         THEN [p EXCEPT !.last_calculated_prob = 0]
         ELSE IF score = None
              THEN [p EXCEPT !.last_calculated_prob = 0]
              ELSE IF score >= confidence_threshold
                   THEN [p EXCEPT !.last_calculated_prob = score,
                                  !.is_active = TRUE]
                   ELSE [p EXCEPT !.last_calculated_prob = score]

\* Variant that stays active after a losing result.
MLProcessResult_OnlyOnWin(p, v) ==
    IF p.is_active /\ v >= ML_TARGET THEN [p EXCEPT !.is_active = FALSE] ELSE p

MLProcessResult(p, v) ==
    IF p.is_active THEN [p EXCEPT !.is_active = FALSE] ELSE p

\* get_bet_recommendation: max(1.0, balance * 0.01), in hundredths.
MLRecommendation(p, balance) ==
    [strategy |-> "MLHighConfidence", dobra |-> 0,
     bet_1 |-> IF balance < 100 THEN 100 ELSE balance,
     target_1 |-> ML_TARGET]

(***************************************************************************)
(* StrategyEngine.                                                         *)
(***************************************************************************)
\* Variant that never reports a suspension.
EstaSuspenso_Never(ate, t) == FALSE

\* esta_suspenso at clock value t
EstaSuspenso(ate, t) == IF ate = None THEN FALSE ELSE t < ate

\* checar_meta_lucro: the goal test
MetaAtingida(banca, saldo) ==
    /\ Truthy(banca)
    /\ saldo * 100 >= banca * (100 + meta_lucro_percentual)

\* Variant that feeds the outcome to no active policy.
AddExplosionValue_SkipResults(h, m, l, value, suspended, score) ==
    LET h1 == DequeAppend(h, value)
        m2 == IF ~suspended /\ ~m.is_active
              THEN MartingaleCheckTrigger(m, h1) ELSE m
        l2 == IF ~suspended /\ ~l.is_active
              THEN MLCheckTrigger(l, h1, score) ELSE l
    IN  [history |-> h1, martingale |-> m2, ml |-> l2,
         results |-> <<>>,
         checked |-> (IF ~suspended /\ ~m.is_active
                      THEN {"Martingale8Low"} ELSE {})
                       \cup (IF ~suspended /\ ~l.is_active
                             THEN {"MLHighConfidence"} ELSE {}),
         activated |-> (IF ~m.is_active /\ m2.is_active
                        THEN {"Martingale8Low"} ELSE {})
                         \cup (IF ~l.is_active /\ l2.is_active
                               THEN {"MLHighConfidence"} ELSE {})]

\* add_explosion_value: history, policies and what was invoked.
AddExplosionValue(h, m, l, value, suspended, score) ==
    LET h1 == DequeAppend(h, value)
        m1 == IF m.is_active THEN MartingaleProcessResult(m, value) ELSE m
        l1 == IF l.is_active THEN MLProcessResult(l, value) ELSE l
        m2 == IF ~suspended /\ ~m1.is_active
              THEN MartingaleCheckTrigger(m1, h1) ELSE m1
        l2 == IF ~suspended /\ ~l1.is_active
              THEN MLCheckTrigger(l1, h1, score) ELSE l1
    IN  [history |-> h1, martingale |-> m2, ml |-> l2,
         results |-> (IF m.is_active THEN <<"Martingale8Low">> ELSE <<>>)
                       \o (IF l.is_active THEN <<"MLHighConfidence">> ELSE <<>>),
         checked |-> (IF ~suspended /\ ~m1.is_active
                      THEN {"Martingale8Low"} ELSE {})
                       \cup (IF ~suspended /\ ~l1.is_active
                             THEN {"MLHighConfidence"} ELSE {}),
         activated |-> (IF ~m1.is_active /\ m2.is_active
                        THEN {"Martingale8Low"} ELSE {})
                         \cup (IF ~l1.is_active /\ l2.is_active
                               THEN {"MLHighConfidence"} ELSE {})]

\* Variant that asks the ML policy first.
PrepareBetsForBalance_MLFirst(m, l, balance) ==
    IF l.is_active THEN <<MLRecommendation(l, balance)>>
    ELSE IF m.is_active THEN <<MartingaleRecommendation(m, balance)>>
    ELSE <<>>

\* prepare_bets_for_balance: the recommendation of the first active
\* policy, <<>> when none is active.
PrepareBetsForBalance(m, l, balance) ==
    IF m.is_active THEN <<MartingaleRecommendation(m, balance)>>
    ELSE IF l.is_active THEN <<MLRecommendation(l, balance)>>
    ELSE <<>>

\* get_bet_recommendation stores the target used by process_result.
AfterRecommendation(m) ==
    IF m.is_active THEN [m EXCEPT !.target_ativo = MARTINGALE_TARGET] ELSE m

\* check_suspension_ended at clock value t: TRUE when it clears the
\* suspension (and then runs _reiniciar_ciclo_pos_meta).
CheckSuspensionEnded(ate, t) == IF ate = None THEN FALSE ELSE t >= ate

\* Variant that takes the passed balance whatever the cycle mode.
NovaBanca_AlwaysSaldo(modo, saldo, original) == saldo

\* _reiniciar_ciclo_pos_meta: the new banca_inicial
NovaBanca(modo, saldo, original) ==
    IF modo = "reinvestir" THEN saldo ELSE original

----------------------------------------------------------------------------
(***************************************************************************)
(* Bounds and inputs of the round model.                                   *)
(***************************************************************************)
MaxRounds == 5

MaxTime == 4

MaxRoundBalHist == 3

\* No round is settled beyond this round count (sessions that start from a
\* long outcome history).
MaxRoundCount == 252

\* Settled round outcomes: a loss, the exit target itself, a full win.
Outcomes == {110, 184, 200}

\* LearningEngine.predict: unavailable, below and above the threshold.
MLScores == {None, 50, 90}

\* Balance readings while rounds are settled.
RoundBalReadings == {100, 150}

\* The clock advances in steps of half a suspension window.
HalfWindow == tempo_suspensao_horas \div 2

\* Cycle mode chosen at the prompt, and whether the BET 1 areas are
\* calibrated in the profile.
SessionSetups ==
    { <<"reinvestir", TRUE>>, <<"preservar", TRUE>>, <<"reinvestir", FALSE>> }

Rep(v, n) == [i \in 1..n |-> v]

\* Outcome histories of sessions in which no policy has activated yet.
SeedHistories ==
    { <<>>,
      Rep(110, 7),
      Rep(1200, 12) \o Rep(110, 7),
      Rep(400, 12) \o Rep(110, 7),
      <<1200>> \o Rep(110, 18) }

\* No prefix of the seed activates a policy: the Martingale trigger is not
\* met or is vetoed, and the history is too short for the ML policy.
SeedIdle(s) ==
    /\ Len(s) < REQUIRED_HISTORY_FOR_PREDICTION
    /\ \A k \in 1..Len(s) :
         LET h == SubSeq(s, 1, k)
         IN  ~HandleTriggerCondition(NewMartingale(SESSION_BANCA),
                                     CountConsecutiveLows(h), h)

(***************************************************************************)
(* Orchestrator: process_explosion, one settled round.                     *)
(***************************************************************************)
NoRound ==
    [round |-> 0, value |-> 0, had_pending |-> FALSE, pending_created |-> 0,
     pending_strategy |-> "", eval_error |-> FALSE, clears |-> 0,
     overwrote |-> FALSE, halted |-> "no", resumed |-> FALSE,
     results |-> <<>>, checked |-> {}, activated |-> {},
     recommendation |-> <<>>, submits |-> 0, recorded |-> FALSE,
     score |-> None, bet_saved |-> FALSE, hit |-> FALSE, lucro_liquido |-> 0,
     pending_bet |-> 0, pending_target |-> 0, submit_result |-> "none",
     dobra_before |-> 0]

\* StrategyEngine.evaluate_executed_bet: the result dict.
EvaluateExecutedBet(explosion_value, executed_bet) ==
    [explosion_value |-> explosion_value,
     recommendation_hit |-> IF executed_bet.target_1 > 0
                            THEN explosion_value >= executed_bet.target_1
                            ELSE FALSE,
     target_1 |-> executed_bet.target_1,
     bet_1 |-> executed_bet.bet_1,
     strategy |-> executed_bet.strategy]

\* _process_bet_evaluation: lucro_liquido of the BetData it saves,
\* result.get("profit_loss", 0.0).
LucroLiquido(result) ==
    IF "profit_loss" \in DOMAIN result THEN result.profit_loss ELSE 0

\* can_execute_bets
CanExecuteBets(calibrated) == calibrated

\* Variant that reports success whatever the clicks did.
FillBetFieldsAndSubmit_IgnoresClicks(calibrated, clicks_ok) == calibrated

\* fill_bet_fields_and_submit: False when an area is missing or a click
\* or fill fails.
FillBetFieldsAndSubmit(calibrated, clicks_ok) == calibrated /\ clicks_ok

\* _handle_previous_bet_result: the pending slot afterwards.  The finally
\* clause empties it whether or not the evaluation raised.
HandlePreviousBetResult_NoFinally(pending, eval_raises) ==
    IF eval_raises THEN pending ELSE <<>>

HandlePreviousBetResult_NoClear(pending, eval_raises) == pending

HandlePreviousBetResult(pending, eval_raises) == <<>>

\* _check_game_state_for_next_round, suspended branch.  late says that the
\* clock passed on between esta_suspenso and check_suspension_ended.
RoundSuspended(base, slot, balance, late) ==
    LET t2 == IF late THEN now + HalfWindow ELSE now
        ended == CheckSuspensionEnded(suspenso_ate, t2)
        banca == NovaBanca(modo_ciclo, balance, banca_original_sessao)
    IN  /\ now' = t2
        /\ IF ended
           THEN /\ suspenso_ate' = None
                /\ banca_inicial' = banca
                /\ martingale' = NewMartingale(banca)
                /\ ml' = NewML(banca)
           ELSE UNCHANGED <<suspenso_ate, banca_inicial, martingale, ml>>
        /\ executed_bet_pending' = slot
        /\ last_round' = [base EXCEPT !.halted = "suspended",
                                      !.resumed = ended]
        /\ UNCHANGED <<explosion_history, aposta_preparada>>

\* _check_profit_target_reached when checar_meta_lucro returns True.
RoundGoalReached(base, slot) ==
    /\ suspenso_ate' = now + tempo_suspensao_horas
    /\ executed_bet_pending' = slot
    /\ last_round' = [base EXCEPT !.halted = "goal"]
    /\ UNCHANGED <<now, explosion_history, martingale, ml, banca_inicial,
                   aposta_preparada>>

\* _prepare_next_round_bet and execute_prepared_bets.
RoundPrepareBet(base, slot, balance, v, submit_ok, score) ==
    LET r == AddExplosionValue(explosion_history, martingale, ml, v,
                               EstaSuspenso(suspenso_ate, now), score)
        rec == PrepareBetsForBalance(r.martingale, r.ml, balance)
        forwarded == rec /= <<>> /\ CanExecuteBets(bet_areas_calibrated)
        asked == IF /\ "MLHighConfidence" \in r.checked
                    /\ Len(r.history) >= REQUIRED_HISTORY_FOR_PREDICTION
                 THEN score ELSE None
        recorded == forwarded
                      /\ FillBetFieldsAndSubmit(bet_areas_calibrated, submit_ok)
    IN  /\ explosion_history' = r.history
        /\ martingale' = IF rec /= <<>> THEN AfterRecommendation(r.martingale)
                         ELSE r.martingale
        /\ ml' = r.ml
        /\ aposta_preparada' = IF recorded THEN <<>> ELSE rec
        /\ executed_bet_pending' = IF recorded THEN rec ELSE slot
        /\ last_round' = [base EXCEPT !.results = r.results,
                                      !.checked = r.checked,
                                      !.activated = r.activated,
                                      !.recommendation = rec,
                                      !.submits = IF forwarded THEN 1 ELSE 0,
                                      !.recorded = recorded,
                                      !.score = asked,
                                      !.submit_result =
                                          IF ~forwarded THEN "none"
                                          ELSE IF submit_ok THEN "ok"
                                          ELSE "failed",
                                      !.overwrote = recorded /\ slot /= <<>>]
        /\ UNCHANGED <<now, suspenso_ate, banca_inicial>>

ProcessExplosionCall(v, eval_raises, submit_ok, score, late) ==
    /\ running
    /\ round_count - seed_rounds < MaxRounds
    /\ round_count < MaxRoundCount
    /\ eval_raises => executed_bet_pending /= <<>>
    /\ late => (EstaSuspenso(suspenso_ate, now) /\ now + HalfWindow <= MaxTime)
    /\ score /= None =>
         Len(explosion_history) + 1 >= REQUIRED_HISTORY_FOR_PREDICTION
    /\ LET balance == IF Truthy(current_balance) THEN current_balance ELSE 0
           had == executed_bet_pending /= <<>>
           evaluated == had /\ ~eval_raises
           result == IF evaluated
                     THEN <<EvaluateExecutedBet(v, executed_bet_pending[1])>>
                     ELSE <<>>
           slot == IF had
                   THEN HandlePreviousBetResult(executed_bet_pending,
                                                eval_raises)
                   ELSE <<>>
           base == [NoRound EXCEPT
                      !.round = round_count + 1,
                      !.dobra_before = martingale.dobra_atual,
                      !.value = IF had THEN v ELSE 0,
                      !.had_pending = had,
                      !.pending_created = pending_created_round,
                      !.pending_strategy =
                          IF had THEN executed_bet_pending[1].strategy ELSE "",
                      !.eval_error = eval_raises,
                      !.bet_saved = evaluated,
                      !.hit = IF evaluated THEN result[1].recommendation_hit
                              ELSE FALSE,
                      !.lucro_liquido = IF evaluated
                                        THEN LucroLiquido(result[1]) ELSE 0,
                      !.pending_bet = IF evaluated THEN result[1].bet_1 ELSE 0,
                      !.pending_target =
                          IF evaluated THEN result[1].target_1 ELSE 0,
                      !.clears = IF had /\ slot = <<>> THEN 1 ELSE 0]
       IN  /\ round_count' = round_count + 1
           /\ IF EstaSuspenso(suspenso_ate, now)
              THEN RoundSuspended(base, slot, balance, late)
              ELSE IF MetaAtingida(banca_inicial, balance)
                   THEN RoundGoalReached(base, slot)
                   ELSE RoundPrepareBet(base, slot, balance, v, submit_ok,
                                        score)
           /\ pending_created_round' =
                 IF last_round'.recorded THEN round_count + 1
                 ELSE IF slot = <<>> THEN 0
                 ELSE pending_created_round
    /\ UNCHANGED <<balVars, bwVars, banca_original_sessao, modo_ciclo,
                   bet_areas_calibrated, seed_rounds, thrVars>>

\* A settled round, whatever the detector and the capturer did to bring it
\* about.
ProcessExplosion(v, eval_raises, submit_ok, score, late) ==
    /\ ProcessExplosionCall(v, eval_raises, submit_ok, score, late)
    /\ UNCHANGED <<capVars, detVars>>

\* One whole iteration of detect_balance_continuously that accepts a new
\* balance; r2 is the confirming read, used when r1 is a drastic change.
DetectBalanceIteration(r1, r2) ==
    /\ running
    /\ bw_pc = "loop"
    /\ Len(balance_history) < MaxRoundBalHist
    /\ Truthy(r1)
    /\ r1 /= current_balance
    /\ LET first == ValidateFirst(r1, current_balance)
           v == IF first = NeedConfirm THEN ValidateSecond(r1, r2) ELSE first
       IN  /\ Truthy(v)
           /\ AcceptBalance(v)
    /\ UNCHANGED <<bwVars, roundVars>>

\* time.time() advances.  The engine compares the clock only with
\* suspenso_ate, so the clock is let run only while a deadline is set.
Tick ==
    /\ suspenso_ate /= None
    /\ now + HalfWindow <= MaxTime
    /\ now' = now + HalfWindow
    /\ UNCHANGED <<balVars, bwVars, engVars, ctlVars, thrVars, capVars,
                   detVars>>

----------------------------------------------------------------------------
(***************************************************************************)
(* The capturer and the round-boundary detector.  Frame values are in      *)
(* hundredths; the detector's clock counts whole seconds.                  *)
(***************************************************************************)
cooldown_seconds == 8
FRAME_BUFFER_MAXLEN == 10
CAPTURE_MIN == 100
CAPTURE_MAX == 99999
SCAN_MIN == 100
SCAN_MAX == 99900

\* The clock of the first detector iteration, its step and its last value.
FirstDetTime == 8
DetTickSeconds == 4
MaxDetTime == 24

\* Iterations of the capturer.
MaxFrames == 2

\* What vision.get_multiplier reads: nothing, 0.50, 1.50, 999.50, 1000.00.
FrameReadings == {None, 50, 150, 99950, 100000}

\* Buffers the capturer has filled before the first state.
BufferSeeds == { <<>>, Rep(150, 9) }

\* deque(maxlen=10).append
FrameAppend(buf, m) == LastN(Append(buf, m), FRAME_BUFFER_MAXLEN)

\* `if multiplier and 1.0 <= multiplier <= 999.99`
CaptureAdmits(m) == Truthy(m) /\ CAPTURE_MIN <= m /\ m <= CAPTURE_MAX

\* One iteration of capture_multipliers_continuously.
CaptureFrame(m) ==
    /\ running
    /\ frames_captured < MaxFrames
    /\ frames_captured' = frames_captured + 1
    /\ frame_buffer' = IF CaptureAdmits(m) THEN FrameAppend(frame_buffer, m)
                       ELSE frame_buffer
    /\ UNCHANGED <<balVars, bwVars, clockVars, engVars, ctlVars, thrVars,
                   detVars>>

\* `if frame["value"] and 1.0 <= frame["value"] <= 999.0`
ScanAdmits(m) == Truthy(m) /\ SCAN_MIN <= m /\ m <= SCAN_MAX

\* The backward scan of the copy from index i down; None when no frame is
\* admitted.
RECURSIVE ScanBackward(_, _)
ScanBackward(copy, i) ==
    IF i = 0 THEN None
    ELSE IF ScanAdmits(copy[i]) THEN copy[i]
         ELSE ScanBackward(copy, i - 1)

\* Variant of the cooldown test that never holds a settlement back.
InCooldown_Never(t, last) == FALSE

\* `if current_time - last_explosion_time < cooldown`
InCooldown(t, last) == t - last < cooldown_seconds

\* Top of the detector loop: read the clock and test the cooldown.
DetectLoopTop ==
    /\ running
    /\ det_pc = "top"
    /\ current_time' = time_s
    /\ det_pc' = IF InCooldown(time_s, last_explosion_time) THEN "top"
                 ELSE "detect"
    /\ UNCHANGED <<balVars, bwVars, clockVars, engVars, ctlVars, thrVars,
                   capVars, time_s, last_explosion_time, buffer_copy,
                   boundaries>>

\* vision.detect_bet_text, and on a boundary the copy of the buffer taken
\* under buffer_lock.
DetectBetText(found) ==
    /\ det_pc = "detect"
    /\ IF found
       THEN /\ buffer_copy' = frame_buffer
            /\ det_pc' = "scan"
       ELSE /\ det_pc' = "top"
            /\ UNCHANGED buffer_copy
    /\ UNCHANGED <<balVars, bwVars, clockVars, engVars, ctlVars, thrVars,
                   capVars, time_s, last_explosion_time, current_time,
                   boundaries>>

\* The scan of the copy and, when it finds a value, process_explosion.
DetectSettle(eval_raises, submit_ok, score, late) ==
    /\ det_pc = "scan"
    /\ LET explosion_value == ScanBackward(buffer_copy, Len(buffer_copy))
       IN  IF Truthy(explosion_value)
           THEN /\ ProcessExplosionCall(explosion_value, eval_raises,
                                        submit_ok, score, late)
                /\ last_explosion_time' = current_time
                /\ det_pc' = "clear"
                /\ boundaries' = boundaries \cup
                      {[at |-> current_time, copy |-> buffer_copy,
                        value |-> explosion_value,
                        round |-> round_count + 1]}
                /\ UNCHANGED <<capVars, time_s, current_time, buffer_copy>>
           ELSE /\ ~eval_raises /\ submit_ok /\ score = None /\ ~late
                /\ det_pc' = "top"
                /\ boundaries' = boundaries \cup
                      {[at |-> current_time, copy |-> buffer_copy,
                        value |-> None, round |-> 0]}
                /\ UNCHANGED <<balVars, bwVars, clockVars, engVars, ctlVars,
                               thrVars, capVars, time_s, last_explosion_time,
                               current_time, buffer_copy>>

\* `with self.buffer_lock: self.frame_buffer.clear()`
DetectClear ==
    /\ det_pc = "clear"
    /\ frame_buffer' = <<>>
    /\ det_pc' = "top"
    /\ UNCHANGED <<balVars, bwVars, clockVars, engVars, ctlVars, thrVars,
                   frames_captured, time_s, last_explosion_time,
                   current_time, buffer_copy, boundaries>>

\* time.time() advances by a few seconds.
DetTick ==
    /\ time_s + DetTickSeconds <= MaxDetTime
    /\ time_s' = time_s + DetTickSeconds
    /\ UNCHANGED <<balVars, bwVars, clockVars, engVars, ctlVars, thrVars,
                   capVars, det_pc, last_explosion_time, current_time,
                   buffer_copy, boundaries>>

\* The capturer's buffer and the detector's locals when the threads start.
DetectorStarted(buffer) ==
    /\ frame_buffer = buffer
    /\ frames_captured = 0
    /\ time_s = FirstDetTime
    /\ det_pc = "top"
    /\ last_explosion_time = 0
    /\ current_time = 0
    /\ buffer_copy = <<>>
    /\ boundaries = {}

----------------------------------------------------------------------------
(***************************************************************************)
(* Threads, locks and shutdown.  Each background thread is a loop of       *)
(* instructions [op, lock, next]: op is "while" (the test of               *)
(* self.running), "with" (entering a with-block of a lock), "end_with"     *)
(* (the body of the with-block and its exit), "perceive" (a call of the    *)
(* vision collaborator), "engine" (a call into the StrategyEngine) or      *)
(* "call" (any other computation, sleep or collaborator call); next is the *)
(* set of positions control can go to.                                     *)
(***************************************************************************)
Threads == {"balance", "capture", "detect", "ui"}

NotStarted == -1

Returned == 0

Ins(op, lock, next) == [op |-> op, lock |-> lock, next |-> next]

\* Variant of the watcher that keeps balance_lock across get_balance.
BalanceProgram_LockAcrossRead ==
    << Ins("while", "none", {2}),
       Ins("call", "none", {1, 3}),
       Ins("with", "balance", {4}),
       Ins("perceive", "none", {5}),
       Ins("end_with", "balance", {1, 6, 10}),
       Ins("call", "none", {1, 7}),
       Ins("with", "balance", {8}),
       Ins("end_with", "balance", {9}),
       Ins("perceive", "none", {1, 10}),
       Ins("with", "balance", {11}),
       Ins("end_with", "balance", {12}),
       Ins("call", "none", {1}) >>

\* detect_balance_continuously with _validate_and_confirm_balance_change.
BalanceProgram ==
    << Ins("while", "none", {2}),            \* 1  while self.running
       Ins("call", "none", {1, 3}),          \* 2  interval test, area lookup
       Ins("with", "balance", {4}),          \* 3  with self.balance_lock
       Ins("end_with", "balance", {5}),      \* 4  snapshot
       Ins("perceive", "none", {1, 6, 10}),  \* 5  vision.get_balance
       Ins("call", "none", {1, 7}),          \* 6  print, sleep(1), area lookup
       Ins("with", "balance", {8}),          \* 7  with self.balance_lock
       Ins("end_with", "balance", {9}),      \* 8  second snapshot
       Ins("perceive", "none", {1, 10}),     \* 9  confirming get_balance
       Ins("with", "balance", {11}),         \* 10 with self.balance_lock
       Ins("end_with", "balance", {12}),     \* 11 write current_balance
       Ins("call", "none", {1}) >>           \* 12 history, stop-loss alert

\* capture_multipliers_continuously
CaptureProgram ==
    << Ins("while", "none", {2}),            \* 1  while self.running
       Ins("perceive", "none", {3, 5}),      \* 2  vision.get_multiplier
       Ins("with", "buffer", {4}),           \* 3  with self.buffer_lock
       Ins("end_with", "buffer", {5}),       \* 4  frame_buffer.append
       Ins("call", "none", {1}) >>           \* 5  sleep(frame_interval)

\* detect_bet_and_process with process_explosion and what it calls.
DetectProgram ==
    << Ins("while", "none", {2}),            \* 1  while self.running
       Ins("call", "none", {1, 3}),          \* 2  cooldown test, area lookup
       Ins("perceive", "none", {4, 23}),     \* 3  vision.detect_bet_text
       Ins("with", "buffer", {5}),           \* 4  with self.buffer_lock
       Ins("end_with", "buffer", {6}),       \* 5  copy of frame_buffer
       Ins("call", "none", {7, 23}),         \* 6  scan of the copy
       Ins("call", "none", {8}),             \* 7  round_count, telemetry
       Ins("with", "balance", {9}),          \* 8  with self.balance_lock
       Ins("end_with", "balance", {10}),     \* 9  read current_balance
       Ins("call", "none", {11, 14}),        \* 10 executed_bet_pending test
       Ins("with", "balance", {12}),         \* 11 with self.balance_lock
       Ins("end_with", "balance", {13}),     \* 12 read current_balance
       Ins("engine", "none", {14}),          \* 13 evaluate_executed_bet
       Ins("call", "none", {15}),            \* 14 db_manager.save_round
       Ins("engine", "none", {16, 21}),      \* 15 suspension and goal checks
       Ins("engine", "none", {17, 21}),      \* 16 add_explosion_value, prepare
       Ins("with", "balance", {18}),         \* 17 with self.balance_lock
       Ins("end_with", "balance", {19}),     \* 18 print of current_balance
       Ins("call", "none", {20, 21}),        \* 19 fill_bet_fields_and_submit
       Ins("engine", "none", {21}),          \* 20 reset_prepared_bets
       Ins("with", "buffer", {22}),          \* 21 with self.buffer_lock
       Ins("end_with", "buffer", {23}),      \* 22 frame_buffer.clear
       Ins("call", "none", {1}) >>           \* 23 sleep(0.1)

\* update_ui_continuously with build_dashboard_layout.
UIProgram ==
    << Ins("while", "none", {2}),            \* 1  while self.running
       Ins("with", "balance", {3}),          \* 2  _get_safe_balances
       Ins("end_with", "balance", {4}),      \* 3  read both balances
       Ins("call", "none", {5}),             \* 4  db stats, history panels
       Ins("engine", "none", {6}),           \* 5  get_current_analysis
       Ins("engine", "none", {7}),           \* 6  get_strategies_stats
       Ins("call", "none", {8, 11}),         \* 7  live_display.update, 30 min
       Ins("with", "balance", {9}),          \* 8  with self.balance_lock
       Ins("end_with", "balance", {1, 10}),  \* 9  read current_balance
       Ins("call", "none", {11}),            \* 10 history stats, alert
       Ins("call", "none", {1}) >>           \* 11 sleep(0.5)

Program ==
    [balance |-> BalanceProgram, capture |-> CaptureProgram,
     detect |-> DetectProgram, ui |-> UIProgram]

\* The instruction a started thread is at.
CurrentIns(t) == Program[t][thr_pc[t]]

InLoop(t) == thr_pc[t] >= 1

\* _run_main_loop: running = True and _start_threads.
StartThreads ==
    /\ main_pc = "init"
    /\ main_pc' = "running"
    /\ running' = TRUE
    /\ thr_pc' = [t \in Threads |-> 1]
    /\ UNCHANGED <<current_balance, initial_balance, balance_history,
                   stop_loss_alerted, stop_loss_alerts, bwVars, clockVars,
                   engVars, ctlVars, lock_holder, stop_pc, stop_calls,
                   capVars, detVars>>

\* One instruction of thread t.
ThreadStep(t) ==
    /\ InLoop(t)
    /\ LET ins == CurrentIns(t)
       IN  \E n \in ins.next :
             /\ CASE ins.op = "while" ->
                       /\ thr_pc' = [thr_pc EXCEPT
                                       ![t] = IF running THEN n ELSE Returned]
                       /\ UNCHANGED lock_holder
                  [] ins.op = "with" ->
                       /\ lock_holder[ins.lock] = "free"
                       /\ lock_holder' = [lock_holder EXCEPT ![ins.lock] = t]
                       /\ thr_pc' = [thr_pc EXCEPT ![t] = n]
                  [] ins.op = "end_with" ->
                       /\ lock_holder' =
                            [lock_holder EXCEPT ![ins.lock] = "free"]
                       /\ thr_pc' = [thr_pc EXCEPT ![t] = n]
                  [] OTHER ->
                       /\ thr_pc' = [thr_pc EXCEPT ![t] = n]
                       /\ UNCHANGED lock_holder
    /\ UNCHANGED <<balVars, bwVars, clockVars, engVars, ctlVars, stop_pc,
                   stop_calls, capVars, detVars>>

\* The body of a with-block: memory accesses, it always completes.
ReleaseStep(t) ==
    /\ InLoop(t)
    /\ CurrentIns(t).op = "end_with"
    /\ ThreadStep(t)

MaxStopCalls == 2

\* Variant of stop() without the test of self.running.
StopReturnsAtOnce_Never(r) == FALSE

\* stop(): `if not self.running: return`
StopReturnsAtOnce(r) == ~r

\* A call of stop(): by start() when the main loop is left, and once more
\* by the script.
StopCall ==
    /\ main_pc /= "init"
    /\ stop_pc \in {"idle", "done"}
    /\ stop_calls < MaxStopCalls
    /\ stop_calls' = stop_calls + 1
    /\ IF StopReturnsAtOnce(running)
       THEN UNCHANGED <<main_pc, running, stop_pc>>
       ELSE /\ running' = FALSE
            /\ main_pc' = "stopped"
            /\ stop_pc' = "join_ui"
    /\ UNCHANGED <<current_balance, initial_balance, balance_history,
                   stop_loss_alerted, stop_loss_alerts, bwVars, clockVars,
                   engVars, ctlVars, thr_pc, lock_holder, capVars, detVars>>

\* The thread stop() joins at each position, and the position after it.
JoinedThread ==
    [join_ui |-> "ui", join_detect |-> "detect", join_balance |-> "balance",
     join_capture |-> "capture"]

AfterJoin ==
    [join_ui |-> "join_detect", join_detect |-> "join_balance",
     join_balance |-> "join_capture", join_capture |-> "display"]

\* Variant of join without a timeout.
JoinReturns_NoTimeout(ended, timed_out) == ended

\* `if thread.is_alive(): thread.join(timeout=...)` is over when the
\* thread has ended or the timeout has elapsed.
JoinReturns(ended, timed_out) == ended \/ timed_out

StopJoin(timed_out) ==
    /\ stop_pc \in DOMAIN JoinedThread
    /\ JoinReturns(~InLoop(JoinedThread[stop_pc]), timed_out)
    /\ stop_pc' = AfterJoin[stop_pc]
    /\ UNCHANGED <<balVars, bwVars, clockVars, engVars, ctlVars, thr_pc,
                   lock_holder, stop_calls, capVars, detVars>>

\* live_display.stop(), sleep(0.5), then the locked read of the final
\* balance, close_session and show_summary.
StopClose ==
    /\ CASE stop_pc = "display" ->
              /\ stop_pc' = "with"
              /\ UNCHANGED lock_holder
         [] stop_pc = "with" ->
              /\ lock_holder.balance = "free"
              /\ lock_holder' = [lock_holder EXCEPT !.balance = "main"]
              /\ stop_pc' = "end_with"
         [] stop_pc = "end_with" ->
              /\ lock_holder' = [lock_holder EXCEPT !.balance = "free"]
              /\ stop_pc' = "done"
         [] OTHER -> FALSE
    /\ UNCHANGED <<balVars, bwVars, clockVars, engVars, ctlVars, thr_pc,
                   stop_calls, capVars, detVars>>

StopStep == (\E timed_out \in BOOLEAN : StopJoin(timed_out)) \/ StopClose

\* The background threads of a running session, before any shutdown.
ThreadsStarted ==
    /\ thr_pc = [t \in Threads |-> 1]
    /\ lock_holder = [balance |-> "free", buffer |-> "free"]
    /\ stop_pc = "idle"
    /\ stop_calls = 0
    /\ DetectorStarted(<<>>)

----------------------------------------------------------------------------
\* BotController.__init__ and StrategyEngine.iniciar_sessao.
Constructed(modo, calibrated) ==
    /\ now = 0
    /\ explosion_history = <<>>
    /\ martingale = NewMartingale(SESSION_BANCA)
    /\ ml = NewML(SESSION_BANCA)
    /\ banca_inicial = SESSION_BANCA
    /\ banca_original_sessao = SESSION_BANCA
    /\ suspenso_ate = None
    /\ modo_ciclo = modo
    /\ aposta_preparada = <<>>
    /\ executed_bet_pending = <<>>
    /\ round_count = 0
    /\ bet_areas_calibrated = calibrated
    /\ seed_rounds = 0
    /\ pending_created_round = 0
    /\ last_round = NoRound
    /\ thr_pc = [t \in Threads |-> NotStarted]
    /\ lock_holder = [balance |-> "free", buffer |-> "free"]
    /\ stop_pc = "idle"
    /\ stop_calls = 0
    /\ DetectorStarted(<<>>)

InitBal ==
    /\ main_pc = "init"
    /\ running = FALSE
    /\ current_balance = None
    /\ initial_balance = None
    /\ balance_history = <<>>
    /\ stop_loss_alerted = FALSE
    /\ stop_loss_alerts = 0
    /\ bw_pc = "unstarted"
    /\ current_balance_snapshot = None
    /\ new_balance = None
    /\ confirmed_balance = None
    /\ validated_balance = None
    /\ Constructed("reinvestir", TRUE)

NextBal ==
    \/ StartSession
    \/ Stop
    \/ BW_Snapshot
    \/ \E r \in BalReadings : BW_GetBalance(r)
    \/ BW_ConfirmSnapshot
    \/ \E r \in BalReadings : BW_ConfirmGet(r)
    \/ BW_Write

SpecBal == InitBal /\ [][NextBal]_vars

NextThreads ==
    \/ StartThreads
    \/ \E t \in Threads : ThreadStep(t)
    \/ StopCall
    \/ StopStep

\* The threads are scheduled and a with-block body completes; stop() runs
\* on.  Collaborator calls get no fairness: a thread may stay in one.
SpecThreads ==
    /\ InitBal
    /\ [][NextThreads]_vars
    /\ WF_vars(StopStep)
    /\ \A t \in Threads : WF_vars(ReleaseStep(t))

\* A running session in which the rounds of a seed history have been
\* settled with every policy idle.
InitRound ==
    /\ main_pc = "running"
    /\ running = TRUE
    /\ current_balance = DEFAULT_BALANCE
    /\ initial_balance = DEFAULT_BALANCE
    /\ balance_history = <<DEFAULT_BALANCE>>
    /\ stop_loss_alerted = FALSE
    /\ stop_loss_alerts = 0
    /\ bw_pc = "loop"
    /\ current_balance_snapshot = None
    /\ new_balance = None
    /\ confirmed_balance = None
    /\ validated_balance = None
    /\ now = 0
    /\ explosion_history \in {s \in SeedHistories : SeedIdle(s)}
    /\ martingale = NewMartingale(SESSION_BANCA)
    /\ ml = NewML(SESSION_BANCA)
    /\ banca_inicial = SESSION_BANCA
    /\ banca_original_sessao = SESSION_BANCA
    /\ suspenso_ate = None
    /\ \E setup \in SessionSetups :
         /\ modo_ciclo = setup[1]
         /\ bet_areas_calibrated = setup[2]
    /\ aposta_preparada = <<>>
    /\ executed_bet_pending = <<>>
    /\ round_count = Len(explosion_history)
    /\ seed_rounds = round_count
    /\ pending_created_round = 0
    /\ last_round = NoRound
    /\ ThreadsStarted

NextRound ==
    \/ \E v \in Outcomes, eval_raises \in BOOLEAN, submit_ok \in BOOLEAN,
          score \in MLScores, late \in BOOLEAN :
          ProcessExplosion(v, eval_raises, submit_ok, score, late)
    \/ \E r1 \in RoundBalReadings, r2 \in RoundBalReadings :
          DetectBalanceIteration(r1, r2)
    \/ Tick

SpecRound == InitRound /\ [][NextRound]_vars

\* A running, calibrated session with no settled round, and a buffer the
\* capturer has been filling.
InitDetect ==
    /\ main_pc = "running"
    /\ running = TRUE
    /\ current_balance = DEFAULT_BALANCE
    /\ initial_balance = DEFAULT_BALANCE
    /\ balance_history = <<DEFAULT_BALANCE>>
    /\ stop_loss_alerted = FALSE
    /\ stop_loss_alerts = 0
    /\ bw_pc = "loop"
    /\ current_balance_snapshot = None
    /\ new_balance = None
    /\ confirmed_balance = None
    /\ validated_balance = None
    /\ now = 0
    /\ explosion_history = <<>>
    /\ martingale = NewMartingale(SESSION_BANCA)
    /\ ml = NewML(SESSION_BANCA)
    /\ banca_inicial = SESSION_BANCA
    /\ banca_original_sessao = SESSION_BANCA
    /\ suspenso_ate = None
    /\ modo_ciclo = "reinvestir"
    /\ bet_areas_calibrated = TRUE
    /\ aposta_preparada = <<>>
    /\ executed_bet_pending = <<>>
    /\ round_count = 0
    /\ seed_rounds = 0
    /\ pending_created_round = 0
    /\ last_round = NoRound
    /\ thr_pc = [t \in Threads |-> 1]
    /\ lock_holder = [balance |-> "free", buffer |-> "free"]
    /\ stop_pc = "idle"
    /\ stop_calls = 0
    /\ \E seed \in BufferSeeds : DetectorStarted(seed)

NextDetect ==
    \/ \E m \in FrameReadings : CaptureFrame(m)
    \/ DetectLoopTop
    \/ \E found \in BOOLEAN : DetectBetText(found)
    \/ \E eval_raises \in BOOLEAN, submit_ok \in BOOLEAN,
          score \in MLScores, late \in BOOLEAN :
          DetectSettle(eval_raises, submit_ok, score, late)
    \/ DetectClear
    \/ DetTick

SpecDetect == InitDetect /\ [][NextDetect]_vars

\* Balances a session starts with, and balances read during it.
StakeBancas == {10, 16, 100, 150}
StakeBalReadings == {11, 99}

\* A running session started with one of the balances, twelve high
\* outcomes and seven lows settled and every policy idle.
InitStake ==
    /\ main_pc = "running"
    /\ running = TRUE
    /\ current_balance \in StakeBancas
    /\ initial_balance = current_balance
    /\ balance_history = <<current_balance>>
    /\ stop_loss_alerted = FALSE
    /\ stop_loss_alerts = 0
    /\ bw_pc = "loop"
    /\ current_balance_snapshot = None
    /\ new_balance = None
    /\ confirmed_balance = None
    /\ validated_balance = None
    /\ now = 0
    /\ explosion_history = Rep(1200, 12) \o Rep(110, 7)
    /\ martingale = NewMartingale(current_balance)
    /\ ml = NewML(current_balance)
    /\ banca_inicial = current_balance
    /\ banca_original_sessao = current_balance
    /\ suspenso_ate = None
    /\ modo_ciclo = "reinvestir"
    /\ bet_areas_calibrated = TRUE
    /\ aposta_preparada = <<>>
    /\ executed_bet_pending = <<>>
    /\ round_count = Len(explosion_history)
    /\ seed_rounds = round_count
    /\ pending_created_round = 0
    /\ last_round = NoRound
    /\ ThreadsStarted

NextStake ==
    \/ \E v \in Outcomes, submit_ok \in BOOLEAN :
          ProcessExplosion(v, FALSE, submit_ok, None, FALSE)
    \/ \E r1 \in StakeBalReadings, r2 \in StakeBalReadings :
          DetectBalanceIteration(r1, r2)
    \/ Tick

SpecStake == InitStake /\ [][NextStake]_vars

\* Rounds the detector settles while the Balance Watcher is observed, and
\* what vision.get_balance reads then.
MaxWatchRounds == 2
WatchReadings == {None, 102, 150}

\* process_explosion on the detector thread; it reads current_balance
\* under balance_lock and writes none of the balance fields.
WatchRound(v, submit_ok) ==
    /\ round_count < MaxWatchRounds
    /\ ProcessExplosion(v, FALSE, submit_ok, None, FALSE)

\* The Balance Watcher step by step, interleaved with the capturer and
\* with the rounds of the detector.
NextWatch ==
    \/ BW_Snapshot
    \/ \E r \in WatchReadings : BW_GetBalance(r)
    \/ BW_ConfirmSnapshot
    \/ \E r \in WatchReadings : BW_ConfirmGet(r)
    \/ BW_Write
    \/ \E v \in Outcomes, submit_ok \in BOOLEAN : WatchRound(v, submit_ok)
    \/ \E m \in FrameReadings : CaptureFrame(m)

SpecWatch == InitDetect /\ [][NextWatch]_vars

\* Outcome histories one round short of the 250 the ML policy requires;
\* the last 19 outcomes are twelve high ones and seven lows.
MLSeedHistories ==
    { Rep(300, 230) \o Rep(1200, 12) \o Rep(110, 7) }

\* A running session with 249 settled rounds and every policy idle.
InitML ==
    /\ main_pc = "running"
    /\ running = TRUE
    /\ current_balance = DEFAULT_BALANCE
    /\ initial_balance = DEFAULT_BALANCE
    /\ balance_history = <<DEFAULT_BALANCE>>
    /\ stop_loss_alerted = FALSE
    /\ stop_loss_alerts = 0
    /\ bw_pc = "loop"
    /\ current_balance_snapshot = None
    /\ new_balance = None
    /\ confirmed_balance = None
    /\ validated_balance = None
    /\ now = 0
    /\ explosion_history \in {s \in MLSeedHistories : SeedIdle(s)}
    /\ martingale = NewMartingale(SESSION_BANCA)
    /\ ml = NewML(SESSION_BANCA)
    /\ banca_inicial = SESSION_BANCA
    /\ banca_original_sessao = SESSION_BANCA
    /\ suspenso_ate = None
    /\ \E setup \in SessionSetups :
         /\ modo_ciclo = setup[1]
         /\ bet_areas_calibrated = setup[2]
    /\ aposta_preparada = <<>>
    /\ executed_bet_pending = <<>>
    /\ round_count = Len(explosion_history)
    /\ seed_rounds = round_count
    /\ pending_created_round = 0
    /\ last_round = NoRound
    /\ ThreadsStarted

SpecML == InitML /\ [][NextRound]_vars

----------------------------------------------------------------------------
(***************************************************************************)
(* Properties of the Balance Watcher.                                      *)
(***************************************************************************)

\* The relative change from prior to value is above 30 percent.
ExceedsDrastic(value, prior) == Abs(value - prior) * 100 > 30 * prior

\* The second reading exists and is within 5 units of the candidate.
SecondReadAgrees(candidate, second) ==
    second /= None /\ second /= 0 /\ Abs(second - candidate) <= 5

\* C1: with a non-zero prior balance, current_balance is never overwritten
\* by a value whose relative change from the prior value exceeds the
\* drastic-change threshold unless a second read was taken in this
\* iteration and agreed with the candidate within 5 units.
C1_NoUnconfirmedDrasticWrite ==
    [][(/\ current_balance /= None
        /\ current_balance /= 0
        /\ current_balance' /= current_balance
        /\ ExceedsDrastic(current_balance', current_balance))
       => SecondReadAgrees(new_balance, confirmed_balance)]_vars

\* A drastic change was written after a confirming second read.
C1_Witness ==
    /\ bw_pc = "loop"
    /\ current_balance = validated_balance
    /\ current_balance_snapshot > 0
    /\ ExceedsDrastic(current_balance, current_balance_snapshot)
    /\ SecondReadAgrees(new_balance, confirmed_balance)

\* C2: a candidate above the threshold is accepted iff the second reading
\* exists and differs from the candidate by at most 5 units; on acceptance
\* the balance stored is the second reading; on rejection current_balance,
\* the balance history and the stop-loss latch are left as they were.
C2_ConfirmationProtocol ==
    [][/\ (bw_pc = "confirm_get" /\ bw_pc' /= "confirm_get") =>
            IF SecondReadAgrees(new_balance, confirmed_balance')
            THEN /\ bw_pc' = "write"
                 /\ validated_balance' = confirmed_balance'
                 /\ UNCHANGED current_balance
            ELSE /\ bw_pc' = "loop"
                 /\ UNCHANGED <<current_balance, balance_history,
                                stop_loss_alerted>>
       /\ (bw_pc = "write" /\ bw_pc' /= "write" /\ confirmed_balance /= None) =>
            /\ current_balance' = confirmed_balance
            /\ balance_history' = Append(balance_history, confirmed_balance)
       /\ (bw_pc = "get_balance" /\ bw_pc' = "write") =>
            ~ExceedsDrastic(new_balance', current_balance_snapshot)
      ]_vars

\* After readings 100, 102, 98 the candidate 260 was confirmed by 259 and
\* 259 was stored.
C2_Witness ==
    /\ balance_history = <<100, 102, 98, 259>>
    /\ new_balance = 260
    /\ confirmed_balance = 259
    /\ current_balance = 259

\* C3: the stop-loss alert is raised at most once per session; once
\* stop_loss_alerted is latched it is never cleared, and no later accepted
\* update raises another alert.
C3_StopLossOnce ==
    /\ [](stop_loss_alerts <= 1)
    /\ [][stop_loss_alerted =>
            (stop_loss_alerted' /\ stop_loss_alerts' = stop_loss_alerts)]_vars

\* The latch is set and a second accepted update below the stop-loss level
\* has been written after the one that raised the alert.
C3_Witness ==
    /\ stop_loss_alerted
    /\ stop_loss_alerts = 1
    /\ \E i, j \in 1..Len(balance_history) :
         /\ i < j
         /\ balance_history[i] * 2 < initial_balance
         /\ balance_history[j] * 2 < initial_balance

----------------------------------------------------------------------------
(***************************************************************************)
(* Properties of the orchestrator and the strategy engine.                 *)
(***************************************************************************)

\* The number of trailing outcomes below 2.0.
TrailingLows(h) ==
    CHOOSE k \in 0..Len(h) :
        /\ \A i \in (Len(h) - k + 1)..Len(h) : h[i] < 200
        /\ (k < Len(h) => h[Len(h) - k] >= 200)

\* At least 20 outcomes, and the most recent 20 have standard deviation
\* >= 2.3 and mean >= 2.5 (outcomes in hundredths).
GatePasses(h) ==
    /\ Len(h) >= 20
    /\ LET x == LastN(h, 20)
       IN  /\ 20 * SeqSumSq(x) - SeqSum(x) * SeqSum(x) >= 21160000
           /\ SeqSum(x) >= 5000

\* How often the policy named s was given the outcome in the last round.
OnResultCalls(s) ==
    Cardinality({i \in 1..Len(last_round.results) : last_round.results[i] = s})

\* C4: at most one pending wager exists at any time; a new one is
\* recorded only when the slot is empty, the wager of the round before
\* having been cleared first.
C4_SinglePendingWager ==
    /\ Len(executed_bet_pending) <= 1
    /\ ~last_round.overwrote
    /\ (last_round.had_pending /\ last_round.recorded) => last_round.clears = 1

\* A wager was recorded in the round that resolved the wager before it.
C4_Witness ==
    /\ last_round.had_pending
    /\ last_round.recorded
    /\ executed_bet_pending /= <<>>

\* C5: a pending wager recorded in round r is evaluated against the
\* outcome of round r+1 and the slot is cleared exactly once in that round,
\* also when the evaluation raises an error.
C5_PendingResolvedNextRound ==
    /\ executed_bet_pending /= <<>> => pending_created_round = round_count
    /\ last_round.had_pending =>
         /\ last_round.pending_created = last_round.round - 1
         /\ last_round.clears = 1
         /\ last_round.halted = "no" =>
              last_round.value = explosion_history[Len(explosion_history)]

\* A pending wager whose evaluation raised an error has been resolved.
C5_Witness ==
    /\ last_round.had_pending
    /\ last_round.eval_error
    /\ executed_bet_pending = <<>>

\* C6 as claimed: for every executed wager the issuing policy's on_result
\* is invoked exactly once, in the round that resolves the wager.
C6_OnResultExactlyOnce ==
    last_round.had_pending => OnResultCalls(last_round.pending_strategy) = 1

\* C6 amended: the issuing policy's on_result is invoked at most once for
\* an executed wager, with the outcome that resolves it: exactly once when
\* the resolving round passes the goal check, and not at all when the
\* balance has reached the profit goal by that round.
C6_OnResultUnlessGoalReached ==
    last_round.had_pending =>
        /\ last_round.halted \in {"no", "goal"}
        /\ last_round.halted = "no" =>
             /\ OnResultCalls(last_round.pending_strategy) = 1
             /\ last_round.value = explosion_history[Len(explosion_history)]
        /\ last_round.halted = "goal" =>
             OnResultCalls(last_round.pending_strategy) = 0

\* A wager was resolved in a round that the profit goal halted.
C6_Witness ==
    /\ last_round.had_pending
    /\ last_round.halted = "goal"

\* C7: the Martingale policy never goes from idle to active when fewer
\* than 20 outcomes exist or the most recent 20 have standard deviation
\* below 2.3 or mean below 2.5.
C7_SafetyGateVeto ==
    /\ []("Martingale8Low" \in last_round.activated
            => GatePasses(explosion_history))
    /\ [][(~martingale.is_active /\ martingale'.is_active)
            => GatePasses(explosion_history')]_vars

\* The trigger count was met with 20 outcomes on record and the gate
\* vetoed the activation.
C7_Witness ==
    /\ "Martingale8Low" \in last_round.checked
    /\ TrailingLows(explosion_history) >= 8
    /\ Len(explosion_history) >= 20
    /\ ~GatePasses(explosion_history)
    /\ ~martingale.is_active

\* C8: an idle Martingale policy activates in check_trigger exactly when
\* at least 8 trailing outcomes are below 2.0 and the safety gate passes;
\* on activation it is active at stage 1 with no consecutive losses.
C8_TriggerExactly ==
    "Martingale8Low" \in last_round.checked =>
        /\ "Martingale8Low" \in last_round.activated
             <=> (/\ TrailingLows(explosion_history) >= 8
                  /\ GatePasses(explosion_history))
        /\ "Martingale8Low" \in last_round.activated =>
             /\ martingale.is_active
             /\ martingale.dobra_atual = 1
             /\ martingale.perdas_consecutivas = 0

\* The policy activated on exactly 8 trailing lows.
C8_Witness ==
    /\ "Martingale8Low" \in last_round.activated
    /\ TrailingLows(explosion_history) = 8
    /\ martingale.is_active

\* Trigger-count sets of the risk modes.
TriggerCountSet ==
    [conservative |-> {8}, moderate |-> {7, 8}, aggressive |-> {6, 7}]

\* C9: after on_result with a full win (outcome >= 2.0) on an active
\* Martingale policy the policy is idle at stage 1 and its trigger count
\* for the next cycle is one drawn from the risk mode's set, whichever
\* risk mode the session runs in.
C9_FullWinResetsAndRedraws ==
    (/\ OnResultCalls("Martingale8Low") = 1
     /\ explosion_history[Len(explosion_history)] >= 200)
    => /\ ~martingale.is_active
       /\ martingale.dobra_atual = 1
       /\ \A mode \in DOMAIN TriggerCountSet :
            martingale.lows_needed \in TriggerCountSet[mode]

\* C10: while suspended, processing a settled round activates no policy,
\* forwards no recommendation and records no pending wager.
C10_NoWageringWhileSuspended ==
    [][(/\ round_count' = round_count + 1
        /\ suspenso_ate /= None
        /\ now < suspenso_ate)
       => /\ last_round'.activated = {}
          /\ last_round'.submits = 0
          /\ ~last_round'.recorded
          /\ executed_bet_pending' = <<>>
          /\ martingale'.is_active => martingale.is_active
          /\ ml'.is_active => ml.is_active]_vars

\* A round was settled during a suspension after the balance had fallen
\* back below the goal.
C10_Witness ==
    /\ last_round.halted = "suspended"
    /\ ~last_round.resumed
    /\ suspenso_ate /= None
    /\ now < suspenso_ate
    /\ current_balance * 100 < banca_inicial * 140

\* C11: when check_suspension_ended clears a suspension it reports so once:
\* the deadline is unset afterwards and no call reports a cleared suspension
\* while no deadline is set; banca_inicial becomes the passed balance in
\* mode "reinvestir" and the original session banca in mode "preservar";
\* both policies are replaced by idle ones at stage 1 built on that banca.
C11_SuspensionClearedOnce ==
    /\ [](suspenso_ate = None =>
            \A t \in 0..(MaxTime + 1) : ~CheckSuspensionEnded(suspenso_ate, t))
    /\ [][(round_count' = round_count + 1 /\ last_round'.resumed) =>
            /\ suspenso_ate /= None
            /\ suspenso_ate' = None
            /\ modo_ciclo = "reinvestir" => banca_inicial' = current_balance
            /\ modo_ciclo = "preservar" =>
                 banca_inicial' = banca_original_sessao
            /\ ~martingale'.is_active
            /\ martingale'.dobra_atual = 1
            /\ martingale'.perdas_consecutivas = 0
            /\ martingale'.banca_inicial = banca_inicial'
            /\ ~ml'.is_active
            /\ ml'.banca_inicial = banca_inicial']_vars

\* A suspension was cleared in mode "preservar" with a balance of 150: the
\* cycle restarts on the original banca of 100.
C11_Witness ==
    /\ last_round.resumed
    /\ modo_ciclo = "preservar"
    /\ current_balance = 150
    /\ banca_inicial = 100
    /\ suspenso_ate = None

\* C12 as claimed: once the clock has reached suspenso_ate, the first
\* settled round clears the suspension and resets the cycle before any
\* trigger evaluation, goal check or wager.
C12_ExpiredSuspensionResetsFirst ==
    [][(/\ round_count' = round_count + 1
        /\ suspenso_ate /= None
        /\ now >= suspenso_ate)
       => /\ last_round'.resumed
          /\ suspenso_ate' = None
          /\ last_round'.halted = "suspended"
          /\ last_round'.checked = {}
          /\ ~last_round'.recorded]_vars

\* C13: the ML policy goes from idle to active only when at least 250
\* outcomes are on record and the predictor returned a score of at least
\* 0.80; an unavailable score never activates it.
C13_ConfidenceGate ==
    /\ []("MLHighConfidence" \in last_round.activated =>
            /\ Len(explosion_history) >= 250
            /\ last_round.score /= None
            /\ last_round.score >= 80)
    /\ [][(~ml.is_active /\ ml'.is_active) =>
            "MLHighConfidence" \in last_round'.activated]_vars

\* The ML policy activated on the 250th outcome.
C13_Witness ==
    /\ "MLHighConfidence" \in last_round.activated
    /\ ml.is_active
    /\ Len(explosion_history) = 250
    /\ last_round.score = 90

\* C14: an active ML policy is idle again after the first on_result it
\* receives, whatever the outcome: in the round that gives it the result it
\* is among the idle policies checked for a trigger, and it is active
\* afterwards only by a new activation of that round.
C14_SingleShot ==
    OnResultCalls("MLHighConfidence") >= 1 =>
        /\ OnResultCalls("MLHighConfidence") = 1
        /\ "MLHighConfidence" \in last_round.checked
        /\ ml.is_active => "MLHighConfidence" \in last_round.activated

\* The ML policy was given a losing outcome and is idle.
C14_Witness ==
    /\ OnResultCalls("MLHighConfidence") = 1
    /\ explosion_history[Len(explosion_history)] = 110
    /\ ~ml.is_active

\* C15: a settled round produces and forwards at most one recommendation;
\* with both policies active it is the Martingale policy's, with only the
\* ML policy active it is the ML policy's, and with no policy active there
\* is none.
C15_OneRecommendation ==
    /\ Len(last_round.recommendation) <= 1
    /\ last_round.submits <= 1
    /\ last_round.submits = 1 => last_round.recommendation /= <<>>
    /\ (last_round.round > 0 /\ last_round.halted = "no") =>
         /\ martingale.is_active =>
              /\ last_round.recommendation /= <<>>
              /\ last_round.recommendation[1].strategy = "Martingale8Low"
         /\ (~martingale.is_active /\ ml.is_active) =>
              /\ last_round.recommendation /= <<>>
              /\ last_round.recommendation[1].strategy = "MLHighConfidence"
         /\ (~martingale.is_active /\ ~ml.is_active) =>
              last_round.recommendation = <<>>
    /\ last_round.halted /= "no" => last_round.recommendation = <<>>

\* Both policies are active and the Martingale recommendation was taken.
C15_Witness ==
    /\ martingale.is_active
    /\ ml.is_active
    /\ last_round.recommendation /= <<>>
    /\ last_round.recommendation[1].strategy = "Martingale8Low"
    /\ last_round.submits = 1

\* C16 as claimed: a pending wager with stake s and target t resolved
\* against outcome o is a hit iff o >= t, and the profit/loss recorded for
\* it is s*t - s on a hit and -s on a miss (stake, target and profit in
\* hundredths).
C16_ProfitLossRecorded ==
    last_round.bet_saved =>
        /\ last_round.hit <=> last_round.value >= last_round.pending_target
        /\ last_round.hit =>
             100 * last_round.lucro_liquido
               = last_round.pending_bet * last_round.pending_target
                   - 100 * last_round.pending_bet
        /\ ~last_round.hit =>
             last_round.lucro_liquido = -last_round.pending_bet

\* C17: a pending wager is recorded only when the recommendation was
\* forwarded and the submission reported success; after a failed
\* submission, or with uncalibrated inputs, none is recorded, and a round
\* submits at most once.
C17_RecordedOnlyOnSuccess ==
    /\ last_round.submits <= 1
    /\ last_round.recorded <=>
         (last_round.submits = 1 /\ last_round.submit_result = "ok")
    /\ last_round.submits = 1 => bet_areas_calibrated
    /\ executed_bet_pending /= <<>> => last_round.recorded
    /\ (last_round.round > 0 /\
         (last_round.submit_result = "failed" \/ ~bet_areas_calibrated)) =>
         /\ ~last_round.recorded
         /\ executed_bet_pending = <<>>

\* A recommendation was forwarded, the submission failed and no pending
\* wager exists.
C17_Witness ==
    /\ last_round.recommendation /= <<>>
    /\ last_round.submits = 1
    /\ last_round.submit_result = "failed"
    /\ executed_bet_pending = <<>>

----------------------------------------------------------------------------
(***************************************************************************)
(* Properties of the threads, the locks and the shutdown.                  *)
(***************************************************************************)

\* The positions at which each thread tests the running flag.
FlagTest == [balance |-> 1, capture |-> 1, detect |-> 1, ui |-> 1]

\* C18: once stop() has cleared the running flag, a thread that tests the
\* flag leaves its loop; stop() runs to its end after the joins whether or
\* not a thread is still in its loop; a stop() call made when the flag is
\* already clear changes nothing.
C18_CooperativeShutdown ==
    /\ [][\A t \in Threads :
            (/\ thr_pc[t] = FlagTest[t]
             /\ ~running
             /\ thr_pc'[t] /= thr_pc[t]) => thr_pc'[t] = 0]_vars
    /\ [][(stop_calls' = stop_calls + 1 /\ ~running) =>
            UNCHANGED <<running, main_pc, stop_pc, thr_pc, lock_holder>>]_vars
    /\ (stop_pc = "join_ui") ~> (stop_pc = "done")

\* stop() has completed and was called a second time; the capturer has
\* left its loop and the detector is still inside a round.
C18_Witness ==
    /\ stop_pc = "done"
    /\ stop_calls = 2
    /\ ~running
    /\ thr_pc["capture"] = 0
    /\ thr_pc["balance"] = 0
    /\ thr_pc["detect"] = 16

\* C19 as claimed: no thread other than the one running the boundary
\* detector's callback is ever inside a call into the StrategyEngine.
C19_EngineSingleOwner ==
    \A t \in Threads \ {"detect"} :
        thr_pc[t] >= 1 => Program[t][thr_pc[t]].op /= "engine"

----------------------------------------------------------------------------
(***************************************************************************)
(* Further properties of the validation, the policies and the engine.      *)
(***************************************************************************)

\* The relative change from prior to value is 30 percent or more.
AtOrAboveDrastic(value, prior) == Abs(value - prior) * 100 >= 30 * prior

\* C21 as claimed: with a non-zero prior balance, a candidate whose
\* relative change is at the drastic-change threshold or above is written
\* only after a confirming second read within 5 units.
C21_ConfirmAtThreshold ==
    [][(/\ current_balance /= None
        /\ current_balance /= 0
        /\ current_balance' /= current_balance
        /\ AtOrAboveDrastic(current_balance', current_balance))
       => SecondReadAgrees(new_balance, confirmed_balance)]_vars

\* The last outcome on record.
LastOutcome == explosion_history[Len(explosion_history)]

\* The Martingale policy was given the outcome in the last round.
MartingaleGotResult == OnResultCalls("Martingale8Low") = 1

\* C22: an outcome below the exit target moves an active Martingale policy
\* from stage s < 4 to stage s+1, still active, and resets it at stage 4
\* (idle at stage 1, unless the same call activates it anew); the stage is
\* always in 1..4 and an idle policy is at stage 1.
C22_LossAdvancesOrResets ==
    /\ martingale.dobra_atual \in 1..4
    /\ ~martingale.is_active => martingale.dobra_atual = 1
    /\ (MartingaleGotResult /\ LastOutcome < 184) =>
         IF last_round.dobra_before < 4
         THEN /\ martingale.is_active
              /\ martingale.dobra_atual = last_round.dobra_before + 1
              /\ "Martingale8Low" \notin last_round.activated
         ELSE /\ martingale.dobra_atual = 1
              /\ "Martingale8Low" \in last_round.checked
              /\ martingale.is_active =>
                   "Martingale8Low" \in last_round.activated

\* A loss at stage 4 has reset the policy.
C22_Witness ==
    /\ MartingaleGotResult
    /\ LastOutcome < 184
    /\ last_round.dobra_before = 4
    /\ martingale.dobra_atual = 1

\* C23: an outcome in [1.84, 1.99] leaves an active Martingale policy
\* active at stage 2 with the continuous-mode flag set, whatever its stage
\* was; the flag is cleared only when the policy goes idle or is activated
\* anew.
C23_PartialWin ==
    /\ []((MartingaleGotResult /\ LastOutcome >= 184 /\ LastOutcome <= 199) =>
            /\ martingale.is_active
            /\ martingale.dobra_atual = 2
            /\ martingale.modo_continuo
            /\ "Martingale8Low" \notin last_round.activated)
    /\ [][(martingale.modo_continuo /\ ~martingale'.modo_continuo) =>
            \/ ~martingale'.is_active
            \/ "Martingale8Low" \in last_round'.activated]_vars

\* A partial win at stage 3 has put the policy at stage 2.
C23_Witness ==
    /\ MartingaleGotResult
    /\ LastOutcome = 184
    /\ last_round.dobra_before = 3
    /\ martingale.dobra_atual = 2
    /\ martingale.modo_continuo

\* C24 as claimed: one add_explosion_value call gives the outcome to the
\* policies that were active, then checks the idle ones, and takes at most
\* one policy from idle to active.
C24_AtMostOneActivation ==
    /\ last_round.activated \subseteq last_round.checked
    /\ Cardinality(last_round.activated) <= 1

\* C25 as claimed: whenever the session is suspended every policy is idle.
C25_SuspendedPoliciesIdle ==
    (suspenso_ate /= None /\ now < suspenso_ate) =>
        (~martingale.is_active /\ ~ml.is_active)

\* C30: a settled round fed to add_explosion_value gives the outcome to the
\* Martingale policy whenever that policy is active, with or without a
\* pending wager, and the outcome moves its stage: a loss below stage 4
\* advances it, a full win resets it.
C30_ResultWithoutWager ==
    [][(/\ round_count' = round_count + 1
        /\ last_round'.halted = "no"
        /\ martingale.is_active) =>
          /\ Len(explosion_history') >= 1
          /\ "Martingale8Low" \in
               {last_round'.results[i] : i \in 1..Len(last_round'.results)}
          /\ (explosion_history'[Len(explosion_history')] < 184
              /\ martingale.dobra_atual < 4) =>
                martingale'.dobra_atual = martingale.dobra_atual + 1
          /\ explosion_history'[Len(explosion_history')] >= 200 =>
                martingale'.dobra_atual = 1]_vars

\* With uncalibrated inputs no wager was ever pending, yet a loss moved the
\* active policy to stage 2.
C30_Witness ==
    /\ ~bet_areas_calibrated
    /\ ~last_round.had_pending
    /\ executed_bet_pending = <<>>
    /\ MartingaleGotResult
    /\ last_round.dobra_before = 1
    /\ martingale.dobra_atual = 2
    /\ martingale.is_active

\* The boundaries that led to a settlement.
SettledBoundaries == {b \in boundaries : b.value /= None}

\* The positions of the snapshot holding a value between 1.00 and 999.99.
PlausibleAt(copy) == {i \in 1..Len(copy) : copy[i] >= 100 /\ copy[i] <= 99999}

\* C26: the timestamps of two boundaries that led to a settlement are at
\* least the cooldown of 8 seconds apart; a boundary whose snapshot holds
\* no plausible value settles no round and leaves the cooldown timer alone.
C26_CooldownSeparation ==
    /\ [](\A a \in SettledBoundaries, b \in SettledBoundaries :
            a.round < b.round => b.at - a.at >= 8)
    /\ [][(/\ det_pc = "scan"
           /\ det_pc' /= "scan"
           /\ PlausibleAt(buffer_copy) = {}) =>
             /\ round_count' = round_count
             /\ explosion_history' = explosion_history
             /\ last_explosion_time' = last_explosion_time]_vars

\* A boundary without a value was followed less than 8 seconds later by a
\* settlement, and that one exactly 8 seconds later by another.
C26_Witness ==
    \E f \in boundaries, a \in SettledBoundaries, b \in SettledBoundaries :
        /\ f.value = None
        /\ f.at < a.at
        /\ a.at - f.at < 8
        /\ b.at - a.at = 8
        /\ b.round = a.round + 1

\* C27 as claimed: a boundary that passed the cooldown settles the round
\* with the most recent value of the snapshot lying in 1.00..999.99 and the
\* buffer is then cleared; with no such value nothing is settled and the
\* buffer is left as it is; the buffer never holds more than 10 values.
C27_SettlesMostRecentPlausible ==
    /\ [](Len(frame_buffer) <= 10)
    /\ [][(det_pc = "scan" /\ det_pc' /= "scan") =>
            LET found == PlausibleAt(buffer_copy)
            IN  IF found = {}
                THEN /\ round_count' = round_count
                     /\ frame_buffer' = frame_buffer
                ELSE /\ round_count' = round_count + 1
                     /\ Len(explosion_history') = Len(explosion_history) + 1
                     /\ explosion_history'[Len(explosion_history')] =
                          buffer_copy[CHOOSE i \in found :
                                        \A j \in found : j <= i]]_vars
    /\ [][(det_pc = "clear" /\ det_pc' /= "clear") => frame_buffer' = <<>>]_vars

\* The stake of the recommendation made in the last round, for the
\* Martingale policy.
StakeRecommended ==
    /\ last_round.recommendation /= <<>>
    /\ last_round.recommendation[1].strategy = "Martingale8Low"

\* 1, 2, 4, 8 for the stages 1..4.
DoublingFactor(stage) == 2 ^ (stage - 1)

\* The stage-1 stake in hundredths: a fifteenth of the cycle's initial
\* balance to the nearest cent, at least 1.00.
StageOneStake(banca) ==
    LET c == CHOOSE k \in 0..(7 * banca + 1) : 2 * Abs(15 * k - 100 * banca) < 15
    IN  IF c < 100 THEN 100 ELSE c

\* C28 as claimed: the stake recommended at stage s is exactly 1, 2, 4, 8
\* times the stage-1 stake.
C28_ExactMultiples ==
    StakeRecommended =>
        LET rec == last_round.recommendation[1]
        IN  rec.bet_1 = DoublingFactor(rec.dobra) * StageOneStake(banca_inicial)

\* C28 amended: the stake recommended at stage s is the amount
\* cycle_initial_balance / 15 * m(s), m = (1, 2, 4, 8), to the nearest cent
\* and raised to 1.00 when below it, whatever the current balance is.
C28_RoundedMultiples ==
    StakeRecommended =>
        LET rec == last_round.recommendation[1]
            exact15 == 100 * banca_inicial * DoublingFactor(rec.dobra)
        IN  /\ rec.dobra \in 1..4
            /\ rec.bet_1 >= 100
            /\ rec.bet_1 > 100 => 2 * Abs(15 * rec.bet_1 - exact15) < 15
            /\ rec.bet_1 = 100 => 2 * (exact15 - 1500) < 15

\* At stage 4 of a cycle begun with 100 the stake is 53.33 while the
\* current balance is no longer 100.
C28_Witness ==
    /\ StakeRecommended
    /\ banca_inicial = 100
    /\ current_balance /= 100
    /\ last_round.recommendation[1].dobra = 4
    /\ last_round.recommendation[1].bet_1 = 5333

\* C29: after session start current_balance changes only in the Balance
\* Watcher's write step, to the validated value, and the snapshot the
\* candidate was validated against is then still the current balance,
\* whatever the detector and the capturer did in between.
C29_ValidatedAgainstCurrent ==
    [][current_balance' /= current_balance =>
         /\ bw_pc = "write"
         /\ bw_pc' = "loop"
         /\ current_balance' = validated_balance
         /\ current_balance_snapshot = current_balance]_vars

\* The watcher wrote 102 and then, after a confirming read, 150 validated
\* against the snapshot 102, while the detector settled rounds and the
\* capturer buffered frames.
C29_Witness ==
    /\ bw_pc = "loop"
    /\ balance_history = <<100, 102, 150>>
    /\ current_balance = 150
    /\ current_balance_snapshot = 102
    /\ confirmed_balance = 150
    /\ round_count = MaxWatchRounds
    /\ frame_buffer /= <<>>

====
